---- MODULE Spec2Model ----
(***************************************************************************)
(* SysGuard: the stepwise animation engines of the Banker's-algorithm,     *)
(* deadlock-detection and Round-Robin scheduling views.                    *)
(*                                                                         *)
(* Each view is a Tk frame driven by button handlers and by one-shot       *)
(* `after` timers.  All timers of one view use the same delay, so they     *)
(* fire in the order in which they were scheduled: the pending timers of   *)
(* a view are a FIFO sequence and only its head can fire.  The attribute   *)
(* animation_job holds the id returned by the most recent after() call;    *)
(* the pending entry it names carries job = TRUE.  The dashboard adds a    *)
(* worker thread that feeds a queue polled by a timer of its own.          *)
(***************************************************************************)
EXTENDS Integers, Sequences, FiniteSets, TLC

\* ------------------------------------------------------------------ bounds
MaxProcs == 2          \* sampled processes per view (the code takes up to 5)
MaxPending == 2        \* BankersView: a button adds a timer only while fewer are pending
MaxPendingSched == 3   \* the same for SchedulingView
MaxPendingDeadlock == 3 \* the same for DeadlockView
MaxStarts == 2         \* SchedulingView: Start presses between two reloads
MaxCpuPercent == 100   \* cpu_percent readings the burst derivation is checked for
MaxSnapshots == 4      \* DashboardView: snapshots the worker thread fetches

MB == 1024 * 1024

\* ------------------------------------------------------- generic helpers
Max(a, b) == IF a > b THEN a ELSE b

RECURSIVE SumSeq(_)
SumSeq(s) == IF s = <<>> THEN 0 ELSE Head(s) + SumSeq(Tail(s))

Count(s, x) == Cardinality({k \in 1..Len(s) : s[k] = x})

NoDup(s) == \A j, k \in 1..Len(s) : j # k => s[j] # s[k]

\* after(delay, f, args): the new timer goes to the tail and becomes the
\* one animation_job names.
Schedule(pend, e) ==
    [k \in 1..Len(pend) |-> [pend[k] EXCEPT !.job = FALSE]] \o <<[e EXCEPT !.job = TRUE]>>

\* after_cancel(animation_job): removes the named timer if it is pending.
Cancel(pend) == SelectSeq(pend, LAMBDA e : ~e.job)

\* The timers that survive a reset were scheduled before it.
MarkPre(pend) == [k \in 1..Len(pend) |-> [pend[k] EXCEPT !.pre = TRUE]]

VARIABLES
    \* ---- BankersView
    b_num,            \* self.num_processes
    b_available,      \* self.available[0]
    b_allocation,     \* self.allocation[i][0], i in 0..num-1
    b_max_claim,      \* self.max_claim[i][0]
    b_need,           \* self.need[i][0]
    b_is_paused,      \* self.is_paused
    b_job,            \* self.animation_job is not None
    b_timers,         \* pending after() callbacks, FIFO
    b_heap,           \* the (work, finish, safe_sequence) list triples alive
    b_self,           \* which triple self.work/self.finish/self.safe_sequence name (0: none yet)
    b_label,          \* result_label text
    b_shown,          \* what render_state last drew: safe sequence and highlight
    b_run_enabled,    \* run_button state is "normal"
    b_pause_enabled,  \* pause_button state is "normal"
    b_reported,       \* history: the triple the last SAFE/UNSAFE verdict was read from
    \* ---- SchedulingView
    s_processes,      \* self.processes: cpu_usage, burst, remaining of process i
    s_timer,          \* self.timer
    s_ready_queue,    \* self.ready_queue (process indices, head first)
    s_current,        \* self.current_process (-1: None)
    s_time_slice,     \* self.time_slice
    s_gantt,          \* self.gantt_data
    s_is_paused,      \* self.is_paused
    s_job,            \* self.animation_job is not None
    s_timers,         \* pending after(1000, tick) callbacks, FIFO
    s_run_enabled,    \* run_button state is "normal"
    s_pause_enabled,  \* pause_button state is "normal"
    s_starts,         \* history: start_animation calls since setup_simulation
    \* ---- DeadlockView
    d_processes,      \* self.processes: display name -> canvas position
    d_resources,      \* self.resources: display name -> canvas position
    d_animation_steps,\* self.animation_steps
    d_current_step,   \* self.current_step
    d_is_paused,      \* self.is_paused
    d_job,            \* self.animation_job is not None
    d_timers,         \* pending after(1500, animate_step) callbacks, FIFO
    d_canvas,         \* the items drawn on the canvas, in drawing order
    d_label,          \* result_label text
    d_run_enabled,    \* run_button state is "normal"
    d_pause_enabled   \* pause_button state is "normal"

bvars == <<b_num, b_available, b_allocation, b_max_claim, b_need, b_is_paused,
           b_job, b_timers, b_heap, b_self, b_label, b_shown, b_run_enabled,
           b_pause_enabled, b_reported>>

svars == <<s_processes, s_timer, s_ready_queue, s_current, s_time_slice, s_gantt,
           s_is_paused, s_job, s_timers, s_run_enabled, s_pause_enabled, s_starts>>

dvars == <<d_processes, d_resources, d_animation_steps, d_current_step, d_is_paused,
           d_job, d_timers, d_canvas, d_label, d_run_enabled, d_pause_enabled>>

VARIABLES
    \* ---- DashboardView
    dash_update_running,  \* self.update_running
    dash_data_queue,      \* self.data_queue, the snapshots not yet taken out
    dash_worker,          \* where update_processes_worker stands
    dash_produced,        \* snapshots fetched so far; the latest is the worker's processes_data
    dash_timer,           \* a process_queue callback is pending
    dash_shown,           \* the snapshot the tree shows, 0 for none
    dash_destroyed,       \* the <Destroy> event has been delivered
    dash_put_after        \* history: snapshots put on the queue since then

kvars == <<dash_update_running, dash_data_queue, dash_worker, dash_produced, dash_timer,
           dash_shown, dash_destroyed, dash_put_after>>

vars == <<bvars, svars, dvars, kvars>>

\* ==================================================================
\* BankersView
\* ==================================================================
Slots == 1..(MaxPending + 2)

NullTriple == [work |-> 0, finish |-> <<>>, seq |-> <<>>]

\* Triples no callback and no attribute refers to are garbage.
Live(self, pend) == {self} \cup {pend[k].obj : k \in 1..Len(pend)}
Collect(heap, self, pend) ==
    [o \in Slots |-> IF o \in Live(self, pend) THEN heap[o] ELSE NullTriple]
FreeSlot(pend) ==
    CHOOSE o \in Slots : /\ o \notin Live(0, pend)
                         /\ \A p \in Slots : p \notin Live(0, pend) => o <= p

\* psutil samples (bytes): memory_info of a process, and the available
\* system memory.  The first two profiles have vms > rss, the last one a
\* virtual size below the resident size.
ProcSamples ==
    {[rss |-> 3 * MB, vms |-> 7 * MB + 1],
     [rss |-> 1 * MB + 512, vms |-> 3 * MB],
     [rss |-> 1 * MB + 512, vms |-> MB \div 2]}
AvailBytes == {3 * MB + 7, 12 * MB}

ToMB(bytes) == bytes \div MB

\* get_top_memory_processes: the top n processes, sorted by resident size,
\* descending.
Samples(n) ==
    {s \in [0..(n - 1) -> ProcSamples] :
        \A i \in 0..(n - 2) : s[i].rss >= s[i + 1].rss}

Allocation(s) == [i \in DOMAIN s |-> ToMB(s[i].rss)]

\* max_claim as sampled, without the loop that raises it above allocation.
MaxClaimAsSampled(s) == [i \in DOMAIN s |-> ToMB(s[i].vms)]

MaxClaim(s) ==
    [i \in DOMAIN s |->
        IF ToMB(s[i].vms) <= ToMB(s[i].rss)
        THEN ToMB(s[i].rss) + (ToMB(s[i].rss) \div 5) + 10
        ELSE ToMB(s[i].vms)]

Need(s) == [i \in DOMAIN s |-> MaxClaim(s)[i] - Allocation(s)[i]]

\* render_state raises IndexError at processes_info[p_idx] when the
\* sequence it is given names a process the current sample does not have;
\* the labels before that one are already drawn.
RenderFails(seq) == \E k \in 1..Len(seq) : seq[k] >= b_num
RenderedPrefix(seq) ==
    IF RenderFails(seq)
    THEN SubSeq(seq, 1, (CHOOSE k \in 1..Len(seq) :
                            /\ seq[k] >= b_num
                            /\ \A j \in 1..(k - 1) : seq[j] < b_num) - 1)
    ELSE seq

\* render_state(safe_sequence, highlight_row, highlight_color)
render_state(seq, row, color) ==
    IF RenderFails(seq)
    THEN [seq |-> RenderedPrefix(seq), row |-> -1, color |-> "none"]
    ELSE [seq |-> seq, row |-> row, color |-> color]

\* Scan without the need <= work test.
ScanIgnoresNeed(t) ==
    LET stop == {i \in 0..(b_num - 1) : i \notin DOMAIN t.finish \/ ~t.finish[i]}
        first == CHOOSE i \in stop : \A j \in stop : i <= j
    IN  IF stop = {} THEN [kind |-> "none", i |-> -1]
        ELSE IF first \notin DOMAIN t.finish THEN [kind |-> "error", i |-> -1]
        ELSE [kind |-> "found", i |-> first]

\* Scan that takes the last index that can run, not the first.
ScanHighestFirst(t) ==
    LET stop == {i \in 0..(b_num - 1) :
                    \/ i \notin DOMAIN t.finish
                    \/ (~t.finish[i] /\ b_need[i] <= t.work)}
        last == CHOOSE i \in stop : \A j \in stop : i >= j
    IN  IF stop = {} THEN [kind |-> "none", i |-> -1]
        ELSE IF last \notin DOMAIN t.finish THEN [kind |-> "error", i |-> -1]
        ELSE [kind |-> "found", i |-> last]

\* The scan of iterator: the first index, in increasing order, that is
\* unfinished with need <= work.  finish[i] raises IndexError when the
\* list is shorter than the current num_processes.
Scan(t) ==
    LET stop == {i \in 0..(b_num - 1) :
                    \/ i \notin DOMAIN t.finish
                    \/ (~t.finish[i] /\ b_need[i] <= t.work)}
        first == CHOOSE i \in stop : \A j \in stop : i <= j
    IN  IF stop = {} THEN [kind |-> "none", i |-> -1]
        ELSE IF first \notin DOMAIN t.finish THEN [kind |-> "error", i |-> -1]
        ELSE [kind |-> "found", i |-> first]

AllFinished(t) == \A i \in DOMAIN t.finish : t.finish[i]

\* iterator(work, finish, safe_sequence, 0) on the triple t held in slot o.
\* ui is the widget state it starts from; the result is the widget state
\* it leaves and the callback it schedules, if any.
iterator(t, o, ui, paused) ==
    IF paused THEN [ui |-> ui, sched |-> <<>>, verdict |-> <<>>]
    ELSE IF Len(t.seq) = b_num THEN
        [ui |-> IF RenderFails(t.seq)
                THEN [ui EXCEPT !.label = "SAFE",
                                !.shown = render_state(t.seq, -1, "none")]
                ELSE [label |-> "SAFE", shown |-> render_state(t.seq, -1, "none"),
                      run |-> TRUE, pause |-> FALSE],
         sched |-> <<>>, verdict |-> <<t>>]
    ELSE LET sc == Scan(t) IN
        IF sc.kind = "found" THEN
            [ui |-> [ui EXCEPT !.label = "Checking",
                               !.shown = render_state(t.seq, sc.i, "orange")],
             sched |-> IF RenderFails(t.seq) THEN <<>>
                       ELSE <<[fn |-> "execute_process", obj |-> o, idx |-> sc.i,
                               job |-> TRUE, pre |-> FALSE]>>,
             verdict |-> <<>>]
        ELSE IF sc.kind = "none" /\ ~AllFinished(t) THEN
            [ui |-> IF RenderFails(t.seq)
                    THEN [ui EXCEPT !.label = "UNSAFE",
                                    !.shown = render_state(t.seq, -1, "none")]
                    ELSE [label |-> "UNSAFE", shown |-> render_state(t.seq, -1, "none"),
                          run |-> TRUE, pause |-> FALSE],
             sched |-> <<>>, verdict |-> <<t>>]
        ELSE [ui |-> ui, sched |-> <<>>, verdict |-> <<>>]

\* The mutation execute_process applies to its triple.
Commit(t, idx) ==
    [work |-> t.work + b_allocation[idx],
     finish |-> [t.finish EXCEPT ![idx] = TRUE],
     seq |-> Append(t.seq, idx)]

\* execute_process that commits but does not schedule iterator again.
execute_process_NoReschedule(t, o, idx, ui, paused) ==
    IF paused \/ idx \notin DOMAIN b_allocation
    THEN [t |-> t, ui |-> ui, sched |-> <<>>]
    ELSE [t |-> Commit(t, idx),
          ui |-> [ui EXCEPT !.label = "finished",
                            !.shown = render_state(Commit(t, idx).seq, idx, "green")],
          sched |-> <<>>]

\* execute_process without the is_paused test.
execute_process_IgnoresPause(t, o, idx, ui, paused) ==
    IF idx \notin DOMAIN b_allocation
    THEN [t |-> t, ui |-> ui, sched |-> <<>>]
    ELSE [t |-> Commit(t, idx),
          ui |-> [ui EXCEPT !.label = "finished",
                            !.shown = render_state(Commit(t, idx).seq, idx, "green")],
          sched |-> IF RenderFails(Commit(t, idx).seq) THEN <<>>
                    ELSE <<[fn |-> "iterator", obj |-> o, idx |-> -1,
                            job |-> TRUE, pre |-> FALSE]>>]

\* execute_process(work, finish, safe_sequence, process_index)
execute_process(t, o, idx, ui, paused) ==
    IF paused \/ idx \notin DOMAIN b_allocation
    THEN [t |-> t, ui |-> ui, sched |-> <<>>]
    ELSE LET c == Commit(t, idx) IN
        [t |-> c,
         ui |-> [ui EXCEPT !.label = "finished",
                           !.shown = render_state(c.seq, idx, "green")],
         sched |-> IF RenderFails(c.seq) THEN <<>>
                   ELSE <<[fn |-> "iterator", obj |-> o, idx |-> -1,
                           job |-> TRUE, pre |-> FALSE]>>]

\* self.available after execute_process has written to a run's work list,
\* were that list self.available itself and not a copy of it.
AvailableAfterCommit_SharedList(t) == t.work

\* self.available after execute_process has written to the lists t of a
\* run: run_algorithm made work a list of its own, list(self.available),
\* so the write to work[0] does not reach it.
AvailableAfterCommit(t) == b_available

BankersUi ==
    [label |-> b_label, shown |-> b_shown, run |-> b_run_enabled,
     pause |-> b_pause_enabled]

\* Writes back what a handler left: widgets, timers, list triples.
BankersCommitState(ui, pend, sched, heap, self, verdict) ==
    LET timers == IF sched = <<>> THEN pend ELSE Schedule(pend, sched[1]) IN
    /\ b_reported' = IF verdict = <<>> THEN b_reported ELSE verdict[1]
    /\ b_label' = ui.label
    /\ b_shown' = ui.shown
    /\ b_run_enabled' = ui.run
    /\ b_pause_enabled' = ui.pause
    /\ b_timers' = timers
    /\ b_job' = (b_job \/ sched # <<>>)
    /\ b_self' = self
    /\ b_heap' = Collect(heap, self, timers)

\* setup_simulation: Reload Live Processes (and the constructor).
BankersSetup(s, avail) ==
    /\ b_num' = Cardinality(DOMAIN s)
    /\ b_available' = ToMB(avail)
    /\ b_allocation' = Allocation(s)
    /\ b_max_claim' = MaxClaim(s)
    /\ b_need' = Need(s)

BankersInit ==
    /\ \E n \in 0..MaxProcs : \E s \in Samples(n) : \E avail \in AvailBytes :
         /\ b_num = n
         /\ b_available = ToMB(avail)
         /\ b_allocation = Allocation(s)
         /\ b_max_claim = MaxClaim(s)
         /\ b_need = Need(s)
    /\ b_is_paused = FALSE
    /\ b_job = FALSE
    /\ b_timers = <<>>
    /\ b_heap = [o \in Slots |-> NullTriple]
    /\ b_self = 0
    /\ b_label = "Ready"
    /\ b_shown = [seq |-> <<>>, row |-> -1, color |-> "none"]
    /\ b_run_enabled = TRUE
    /\ b_pause_enabled = FALSE
    /\ b_reported = NullTriple

BankersReload ==
    /\ UNCHANGED <<svars, dvars, kvars>>
    /\ \E n \in 0..MaxProcs : \E s \in Samples(n) : \E avail \in AvailBytes :
        LET pend == MarkPre(IF b_job THEN Cancel(b_timers) ELSE b_timers) IN
        /\ BankersSetup(s, avail)
        /\ b_is_paused' = FALSE
        /\ b_job' = FALSE
        /\ b_timers' = pend
        /\ b_heap' = Collect(b_heap, b_self, pend)
        /\ b_self' = b_self
        /\ b_label' = "Ready"
        /\ b_shown' = [seq |-> <<>>, row |-> -1, color |-> "none"]
        /\ b_run_enabled' = TRUE
        /\ b_pause_enabled' = FALSE
        /\ b_reported' = NullTriple

\* run_algorithm: Run Safety Algorithm.
BankersRun ==
    /\ UNCHANGED <<svars, dvars, kvars>>
    /\ b_run_enabled
    /\ Len(b_timers) < MaxPending
    /\ LET o == FreeSlot(b_timers)
           t == [work |-> b_available,
                 finish |-> [i \in 0..(b_num - 1) |-> FALSE],
                 seq |-> <<>>]
           ui == [BankersUi EXCEPT !.run = FALSE, !.pause = TRUE]
           r == iterator(t, o, ui, b_is_paused)
       IN  BankersCommitState(r.ui, b_timers, r.sched, [b_heap EXCEPT ![o] = t], o, r.verdict)
    /\ UNCHANGED <<b_num, b_available, b_allocation, b_max_claim, b_need, b_is_paused>>

\* toggle_pause, pressed while running: Pause.
BankersPause ==
    /\ UNCHANGED <<svars, dvars, kvars>>
    /\ b_pause_enabled
    /\ ~b_is_paused
    /\ b_is_paused' = TRUE
    /\ UNCHANGED <<b_num, b_available, b_allocation, b_max_claim, b_need, b_job,
                   b_timers, b_heap, b_self, b_label, b_shown, b_run_enabled,
                   b_pause_enabled, b_reported>>

\* toggle_pause, pressed while paused: Resume re-triggers iterator.
BankersResume ==
    /\ UNCHANGED <<svars, dvars, kvars>>
    /\ b_pause_enabled
    /\ b_is_paused
    /\ Len(b_timers) < MaxPending
    /\ b_is_paused' = FALSE
    /\ LET r == iterator(b_heap[b_self], b_self, BankersUi, FALSE)
       IN  BankersCommitState(r.ui, b_timers, r.sched, b_heap, b_self, r.verdict)
    /\ UNCHANGED <<b_num, b_available, b_allocation, b_max_claim, b_need>>

\* The head timer fires.
BankersFire ==
    /\ UNCHANGED <<svars, dvars, kvars>>
    /\ b_timers # <<>>
    /\ LET e == Head(b_timers)
           pend == Tail(b_timers)
           t == b_heap[e.obj]
       IN  IF e.fn = "iterator"
           THEN LET r == iterator(t, e.obj, BankersUi, b_is_paused)
                IN  /\ BankersCommitState(r.ui, pend, r.sched, b_heap, b_self, r.verdict)
                    /\ UNCHANGED b_available
           ELSE LET r == execute_process(t, e.obj, e.idx, BankersUi, b_is_paused)
                IN  /\ BankersCommitState(r.ui, pend, r.sched,
                                          [b_heap EXCEPT ![e.obj] = r.t], b_self, <<>>)
                    /\ b_available' = AvailableAfterCommit(r.t)
    /\ UNCHANGED <<b_num, b_allocation, b_max_claim, b_need, b_is_paused>>

\* ==================================================================
\* SchedulingView
\* ==================================================================
Quantum == 2

\* cpu_percent readings (integer percentages), sorted descending by
\* get_top_cpu_processes_fast.
CpuPercents == {1, 4, 5, 8}

CpuSamples(n) ==
    {c \in [0..(n - 1) -> CpuPercents] : \A i \in 0..(n - 2) : c[i] >= c[i + 1]}

\* A burst time without the minimum of 2.
BurstTimeWithoutMinimum(cpu) == (cpu \div 2) + 1

\* burst_time = max(2, int(cpu_usage * 0.5) + 1)
BurstTime(cpu) == Max(2, (cpu \div 2) + 1)

\* Processes whose remaining time starts at the CPU reading, not the burst.
ProcessesRemainingFromCpu(c) ==
    [i \in DOMAIN c |->
        [cpu_usage |-> c[i], burst |-> BurstTime(c[i]), remaining |-> c[i]]]

Processes(c) ==
    [i \in DOMAIN c |->
        [cpu_usage |-> c[i], burst |-> BurstTime(c[i]), remaining |-> BurstTime(c[i])]]

\* The simulation state setup_simulation builds from self.processes.
Simulation(procs) ==
    [processes |-> procs,
     timer |-> 0,
     ready_queue |-> [k \in 1..Cardinality(DOMAIN procs) |-> k - 1],
     current |-> -1,
     time_slice |-> 0,
     gantt |-> <<>>]

SchedSim ==
    [processes |-> s_processes, timer |-> s_timer, ready_queue |-> s_ready_queue,
     current |-> s_current, time_slice |-> s_time_slice, gantt |-> s_gantt]

\* A segment that starts at the tick that closes it.
SegmentStartsAtTimer(st, slice) ==
    [id |-> st.current, start |-> st.timer, duration |-> slice]

\* The Gantt segment tick closes for the process on the CPU.  The segment's
\* id/color pair is the process's index (its color is colors[i % 5]).
Segment(st, slice) ==
    [id |-> st.current, start |-> st.timer - slice + 1, duration |-> slice]

\* RunCurrent that leaves time_slice as it is on a quantum expiry.
RunCurrentKeepsSlice(st) ==
    IF st.current = -1 THEN st
    ELSE LET rem == st.processes[st.current].remaining - 1
             slice == st.time_slice + 1
             procs == [st.processes EXCEPT ![st.current].remaining = rem]
         IN  IF rem = 0
             THEN [st EXCEPT !.processes = procs,
                             !.gantt = Append(st.gantt, Segment(st, slice)),
                             !.current = -1,
                             !.time_slice = 0]
             ELSE IF slice = Quantum
             THEN [st EXCEPT !.processes = procs,
                             !.gantt = Append(st.gantt, Segment(st, slice)),
                             !.ready_queue = Append(st.ready_queue, st.current),
                             !.current = -1,
                             !.time_slice = slice]
             ELSE [st EXCEPT !.processes = procs, !.time_slice = slice]

\* RunCurrent that tests the quantum before it tests remaining == 0.
RunCurrentQuantumFirst(st) ==
    IF st.current = -1 THEN st
    ELSE LET rem == st.processes[st.current].remaining - 1
             slice == st.time_slice + 1
             procs == [st.processes EXCEPT ![st.current].remaining = rem]
         IN  IF slice = Quantum
             THEN [st EXCEPT !.processes = procs,
                             !.gantt = Append(st.gantt, Segment(st, slice)),
                             !.ready_queue = Append(st.ready_queue, st.current),
                             !.current = -1,
                             !.time_slice = 0]
             ELSE IF rem = 0
             THEN [st EXCEPT !.processes = procs,
                             !.gantt = Append(st.gantt, Segment(st, slice)),
                             !.current = -1,
                             !.time_slice = 0]
             ELSE [st EXCEPT !.processes = procs, !.time_slice = slice]

\* RunCurrent that puts a process whose quantum expired at the head of the
\* ready queue.
RunCurrentRequeuesAtHead(st) ==
    IF st.current = -1 THEN st
    ELSE LET rem == st.processes[st.current].remaining - 1
             slice == st.time_slice + 1
             procs == [st.processes EXCEPT ![st.current].remaining = rem]
         IN  IF rem = 0
             THEN [st EXCEPT !.processes = procs,
                             !.gantt = Append(st.gantt, Segment(st, slice)),
                             !.current = -1,
                             !.time_slice = 0]
             ELSE IF slice = Quantum
             THEN [st EXCEPT !.processes = procs,
                             !.gantt = Append(st.gantt, Segment(st, slice)),
                             !.ready_queue = <<st.current>> \o st.ready_queue,
                             !.current = -1,
                             !.time_slice = 0]
             ELSE [st EXCEPT !.processes = procs, !.time_slice = slice]

\* tick, first part: the process on the CPU runs for one tick.
RunCurrent(st) ==
    IF st.current = -1 THEN st
    ELSE LET rem == st.processes[st.current].remaining - 1
             slice == st.time_slice + 1
             procs == [st.processes EXCEPT ![st.current].remaining = rem]
         IN  IF rem = 0
             THEN [st EXCEPT !.processes = procs,
                             !.gantt = Append(st.gantt, Segment(st, slice)),
                             !.current = -1,
                             !.time_slice = 0]
             ELSE IF slice = Quantum
             THEN [st EXCEPT !.processes = procs,
                             !.gantt = Append(st.gantt, Segment(st, slice)),
                             !.ready_queue = Append(st.ready_queue, st.current),
                             !.current = -1,
                             !.time_slice = 0]
             ELSE [st EXCEPT !.processes = procs, !.time_slice = slice]

\* Dispatch that leaves the dispatched process in the ready queue.
DispatchKeepsQueued(st) ==
    IF st.current = -1 /\ st.ready_queue # <<>>
    THEN [st EXCEPT !.current = Head(st.ready_queue)]
    ELSE st

\* Dispatch that takes the process at the end of the ready queue.
DispatchTakesLast(st) ==
    IF st.current = -1 /\ st.ready_queue # <<>>
    THEN [st EXCEPT !.current = st.ready_queue[Len(st.ready_queue)],
                    !.ready_queue = SubSeq(st.ready_queue, 1, Len(st.ready_queue) - 1)]
    ELSE st

\* tick, second part: an empty CPU takes the head of the ready queue.
Dispatch(st) ==
    IF st.current = -1 /\ st.ready_queue # <<>>
    THEN [st EXCEPT !.current = Head(st.ready_queue),
                    !.ready_queue = Tail(st.ready_queue)]
    ELSE st

\* tick that keeps only the two latest segments on the chart.
tick_DropsOldSegments(st) ==
    LET d == Dispatch(RunCurrent(st)) IN
    [d EXCEPT !.timer = d.timer + 1,
              !.gantt = IF Len(d.gantt) > 2 THEN Tail(d.gantt) ELSE d.gantt]

\* tick (not paused): the simulation state it leaves.
tick(st) ==
    LET d == Dispatch(RunCurrent(st)) IN [d EXCEPT !.timer = d.timer + 1]

\* A reschedule test that looks at the ready queue only.
MoreWorkQueueOnly(st) == st.ready_queue # <<>>

\* The condition under which tick schedules itself again.
MoreWork(st) ==
    \/ \E i \in DOMAIN st.processes : st.processes[i].remaining > 0
    \/ st.ready_queue # <<>>
    \/ st.current # -1

SchedPut(st) ==
    /\ s_processes' = st.processes
    /\ s_timer' = st.timer
    /\ s_ready_queue' = st.ready_queue
    /\ s_current' = st.current
    /\ s_time_slice' = st.time_slice
    /\ s_gantt' = st.gantt

\* A call of tick, entered with `pend` the pending timers and the two
\* buttons in the states run and pause.
SchedTick(pend, run, pause) ==
    IF s_is_paused'
    THEN /\ s_timers' = pend
         /\ s_run_enabled' = run
         /\ s_pause_enabled' = pause
         /\ UNCHANGED <<s_processes, s_timer, s_ready_queue, s_current, s_time_slice,
                        s_gantt, s_job>>
    ELSE LET st == tick(SchedSim) IN
         /\ SchedPut(st)
         /\ IF MoreWork(st)
            THEN /\ s_timers' = Schedule(pend, [job |-> TRUE, pre |-> FALSE])
                 /\ s_job' = TRUE
                 /\ s_run_enabled' = run
                 /\ s_pause_enabled' = pause
            ELSE /\ s_timers' = pend
                 /\ s_run_enabled' = TRUE
                 /\ s_pause_enabled' = FALSE
                 /\ UNCHANGED s_job

SchedConstructed(c) ==
    LET st == Simulation(Processes(c)) IN
    /\ s_processes = st.processes
    /\ s_timer = st.timer
    /\ s_ready_queue = st.ready_queue
    /\ s_current = st.current
    /\ s_time_slice = st.time_slice
    /\ s_gantt = st.gantt

SchedInit ==
    /\ \E n \in 0..MaxProcs : \E c \in CpuSamples(n) : SchedConstructed(c)
    /\ s_is_paused = FALSE
    /\ s_job = FALSE
    /\ s_timers = <<>>
    /\ s_run_enabled = TRUE
    /\ s_pause_enabled = FALSE
    /\ s_starts = 0

\* setup_simulation: Reload Live Processes.
SchedReload ==
    /\ UNCHANGED <<bvars, dvars, kvars>>
    /\ \E n \in 0..MaxProcs : \E c \in CpuSamples(n) :
        /\ SchedPut(Simulation(Processes(c)))
        /\ s_timers' = MarkPre(IF s_job THEN Cancel(s_timers) ELSE s_timers)
        /\ s_job' = FALSE
        /\ s_is_paused' = FALSE
        /\ s_run_enabled' = TRUE
        /\ s_pause_enabled' = FALSE
        /\ s_starts' = 0

\* start_animation: Start Animation.
SchedStart ==
    /\ UNCHANGED <<bvars, dvars, kvars>>
    /\ s_run_enabled
    /\ s_starts < MaxStarts
    /\ Len(s_timers) < MaxPendingSched
    /\ s_starts' = s_starts + 1
    /\ UNCHANGED s_is_paused
    /\ SchedTick(s_timers, FALSE, TRUE)

\* toggle_pause, pressed while running: Pause.
SchedPause ==
    /\ UNCHANGED <<bvars, dvars, kvars>>
    /\ s_pause_enabled
    /\ ~s_is_paused
    /\ s_is_paused' = TRUE
    /\ UNCHANGED <<s_processes, s_timer, s_ready_queue, s_current, s_time_slice,
                   s_gantt, s_job, s_timers, s_run_enabled, s_pause_enabled, s_starts>>

\* toggle_pause, pressed while paused: Resume re-triggers tick.
SchedResume ==
    /\ UNCHANGED <<bvars, dvars, kvars>>
    /\ s_pause_enabled
    /\ s_is_paused
    /\ Len(s_timers) < MaxPendingSched
    /\ s_is_paused' = FALSE
    /\ UNCHANGED s_starts
    /\ SchedTick(s_timers, s_run_enabled, s_pause_enabled)

\* The head timer fires: tick.
SchedFire ==
    /\ UNCHANGED <<bvars, dvars, kvars>>
    /\ s_timers # <<>>
    /\ UNCHANGED <<s_is_paused, s_starts>>
    /\ SchedTick(Tail(s_timers), s_run_enabled, s_pause_enabled)

\* ==================================================================
\* DeadlockView
\* ==================================================================
\* Names are sequences of characters.  The two long process names share
\* their first 12 characters.
Chrome == <<"c", "h", "r", "o", "m", "e">>
LongStem == <<"s", "y", "s", "t", "e", "m", "m", "o", "n", "i", "t", "o">>
ProcNames == {Chrome, LongStem \o <<"r", "1">>, LongStem \o <<"r", "2">>}

\* What get_open_file_for_pid returns: a file's base name, or None.
None == <<>>
AppLog == <<"a", "p", "p", ".", "l", "o", "g">>
DataDb == <<"d", "a", "t", "a", ".", "d", "b">>
Cache == <<"c", "a", "c", "h", "e">>

\* An open file of a process: its base name, whether its path ends in
\* .log/.db/.txt/.dat, and whether the path contains 'Windows' or 'System32'.
WantedFile(base) == [base |-> base, wanted |-> TRUE, windows |-> FALSE, system32 |-> FALSE]
SystemLog == [base |-> AppLog, wanted |-> TRUE, windows |-> TRUE, system32 |-> TRUE]
PlainFile == [base |-> Cache, wanted |-> FALSE, windows |-> FALSE, system32 |-> FALSE]

\* What psutil does for one pid: it lists the open files, or raises.
LookupOutcomes ==
    {[kind |-> "AccessDenied", files |-> <<>>],
     [kind |-> "NoSuchProcess", files |-> <<>>],
     [kind |-> "files", files |-> <<>>],
     [kind |-> "files", files |-> <<SystemLog>>],
     [kind |-> "files", files |-> <<SystemLog, WantedFile(AppLog)>>],
     [kind |-> "files", files |-> <<PlainFile, WantedFile(DataDb)>>],
     [kind |-> "files", files |-> <<SystemLog, PlainFile>>]}

\* The base name of the first file of fs, or None.
FirstBase(fs) == IF fs = <<>> THEN None ELSE Head(fs).base

\* get_open_file_for_pid that answers a refused or failed lookup with the
\* name of the exception.
get_open_file_for_pid_NamesError(o) ==
    IF o.kind # "files" THEN <<"E", "r", "r", "o", "r">>
    ELSE LET wanted == FirstBase(SelectSeq(o.files, LAMBDA f : f.wanted /\ ~f.windows))
         IN  IF wanted # None THEN wanted
             ELSE FirstBase(SelectSeq(o.files, LAMBDA f : ~f.windows /\ ~f.system32))

\* get_open_file_for_pid: both exceptions are swallowed and None returned.
get_open_file_for_pid(o) ==
    IF o.kind # "files" THEN None
    ELSE LET wanted == FirstBase(SelectSeq(o.files, LAMBDA f : f.wanted /\ ~f.windows))
         IN  IF wanted # None THEN wanted
             ELSE FirstBase(SelectSeq(o.files, LAMBDA f : ~f.windows /\ ~f.system32))

LookupResults == {get_open_file_for_pid(o) : o \in LookupOutcomes}

\* r_name = get_open_file_for_pid(pid) or placeholder
OrElse(found, placeholder) == IF found = None THEN placeholder ELSE found
Resource_A == <<"R", "e", "s", "o", "u", "r", "c", "e", "_", "A">>
Resource_B == <<"R", "e", "s", "o", "u", "r", "c", "e", "_", "B">>

\* _truncate_name(name, max_len)
truncate_name(name, max_len) ==
    IF Len(name) > max_len THEN SubSeq(name, 1, max_len) \o <<".", ".", ".">> ELSE name

\* A two-entry dict literal {k1: v1, k2: v2}: the later entry wins on equal keys.
Dict2(k1, v1, k2, v2) == [k \in {k1, k2} |-> IF k = k2 THEN v2 ELSE v1]

\* A script that draws the request edge P1 -> R2 before the node R2.
AnimationStepsRequestEarly(p1, p2, r1, r2) ==
    << [type |-> "TEXT", args |-> <<1>>],
       [type |-> "DRAW_PROCESS", args |-> <<p1>>],
       [type |-> "TEXT", args |-> <<2>>],
       [type |-> "DRAW_RESOURCE", args |-> <<r1>>],
       [type |-> "TEXT", args |-> <<3>>],
       [type |-> "DRAW_ASSIGN_EDGE", args |-> <<r1, p1>>],
       [type |-> "TEXT", args |-> <<4>>],
       [type |-> "DRAW_PROCESS", args |-> <<p2>>],
       [type |-> "TEXT", args |-> <<5>>],
       [type |-> "DRAW_REQUEST_EDGE", args |-> <<p1, r2>>],
       [type |-> "TEXT", args |-> <<6>>],
       [type |-> "DRAW_ASSIGN_EDGE", args |-> <<r2, p2>>],
       [type |-> "TEXT", args |-> <<7>>],
       [type |-> "DRAW_RESOURCE", args |-> <<r2>>],
       [type |-> "TEXT", args |-> <<8>>],
       [type |-> "DRAW_REQUEST_EDGE", args |-> <<p2, r1>>],
       [type |-> "TEXT", args |-> <<9>>],
       [type |-> "DETECT_CYCLE", args |-> <<<<p1, r2, p2, r1, p1>>>>] >>

\* A script that reports the cycle in the order P1, R1, P2, R2, P1.
AnimationStepsAssignCycle(p1, p2, r1, r2) ==
    << [type |-> "TEXT", args |-> <<1>>],
       [type |-> "DRAW_PROCESS", args |-> <<p1>>],
       [type |-> "TEXT", args |-> <<2>>],
       [type |-> "DRAW_RESOURCE", args |-> <<r1>>],
       [type |-> "TEXT", args |-> <<3>>],
       [type |-> "DRAW_ASSIGN_EDGE", args |-> <<r1, p1>>],
       [type |-> "TEXT", args |-> <<4>>],
       [type |-> "DRAW_PROCESS", args |-> <<p2>>],
       [type |-> "TEXT", args |-> <<5>>],
       [type |-> "DRAW_RESOURCE", args |-> <<r2>>],
       [type |-> "TEXT", args |-> <<6>>],
       [type |-> "DRAW_ASSIGN_EDGE", args |-> <<r2, p2>>],
       [type |-> "TEXT", args |-> <<7>>],
       [type |-> "DRAW_REQUEST_EDGE", args |-> <<p1, r2>>],
       [type |-> "TEXT", args |-> <<8>>],
       [type |-> "DRAW_REQUEST_EDGE", args |-> <<p2, r1>>],
       [type |-> "TEXT", args |-> <<9>>],
       [type |-> "DETECT_CYCLE", args |-> <<<<p1, r1, p2, r2, p1>>>>] >>

\* The script run_simulation builds.  A TEXT step carries the number of
\* its message.
AnimationSteps(p1, p2, r1, r2) ==
    << [type |-> "TEXT", args |-> <<1>>],
       [type |-> "DRAW_PROCESS", args |-> <<p1>>],
       [type |-> "TEXT", args |-> <<2>>],
       [type |-> "DRAW_RESOURCE", args |-> <<r1>>],
       [type |-> "TEXT", args |-> <<3>>],
       [type |-> "DRAW_ASSIGN_EDGE", args |-> <<r1, p1>>],
       [type |-> "TEXT", args |-> <<4>>],
       [type |-> "DRAW_PROCESS", args |-> <<p2>>],
       [type |-> "TEXT", args |-> <<5>>],
       [type |-> "DRAW_RESOURCE", args |-> <<r2>>],
       [type |-> "TEXT", args |-> <<6>>],
       [type |-> "DRAW_ASSIGN_EDGE", args |-> <<r2, p2>>],
       [type |-> "TEXT", args |-> <<7>>],
       [type |-> "DRAW_REQUEST_EDGE", args |-> <<p1, r2>>],
       [type |-> "TEXT", args |-> <<8>>],
       [type |-> "DRAW_REQUEST_EDGE", args |-> <<p2, r1>>],
       [type |-> "TEXT", args |-> <<9>>],
       [type |-> "DETECT_CYCLE", args |-> <<<<p1, r2, p2, r1, p1>>>>] >>

\* What one script step does to the canvas and the status label.
StepEffect(step, canvas, label) ==
    IF step.type = "TEXT"
    THEN [canvas |-> canvas, label |-> [kind |-> "TEXT", text |-> step.args[1]]]
    ELSE IF step.type = "DRAW_PROCESS"
    THEN [canvas |-> Append(canvas, [kind |-> "process", tag |-> step.args[1],
                                     at |-> d_processes[step.args[1]],
                                     to |-> d_processes[step.args[1]], fill |-> "blue"]),
          label |-> label]
    ELSE IF step.type = "DRAW_RESOURCE"
    THEN [canvas |-> Append(canvas, [kind |-> "resource", tag |-> step.args[1],
                                     at |-> d_resources[step.args[1]],
                                     to |-> d_resources[step.args[1]], fill |-> "green"]),
          label |-> label]
    ELSE IF step.type = "DRAW_ASSIGN_EDGE"
    THEN [canvas |-> Append(canvas, [kind |-> "assign", tag |-> None,
                                     at |-> d_resources[step.args[1]],
                                     to |-> d_processes[step.args[2]], fill |-> "white"]),
          label |-> label]
    ELSE IF step.type = "DRAW_REQUEST_EDGE"
    THEN [canvas |-> Append(canvas, [kind |-> "request", tag |-> None,
                                     at |-> d_processes[step.args[1]],
                                     to |-> d_resources[step.args[2]], fill |-> "orange"]),
          label |-> label]
    ELSE [canvas |-> [k \in 1..Len(canvas) |->
                        IF canvas[k].tag \in (DOMAIN d_processes \cup DOMAIN d_resources)
                        THEN [canvas[k] EXCEPT !.fill = "red"] ELSE canvas[k]],
          label |-> [kind |-> "DEADLOCK", text |-> step.args[1]]]

\* animate_step that leaves the cursor where it is while another callback
\* is pending.
animate_step_CursorPerChain(pend) ==
    IF d_is_paused' \/ d_current_step >= Len(d_animation_steps)
    THEN /\ d_timers' = pend
         /\ IF ~d_is_paused'
            THEN d_run_enabled' = TRUE /\ d_pause_enabled' = FALSE
            ELSE UNCHANGED <<d_run_enabled, d_pause_enabled>>
         /\ UNCHANGED <<d_canvas, d_label, d_job>>
         /\ UNCHANGED <<d_current_step, d_animation_steps, d_processes, d_resources>>
    ELSE LET r == StepEffect(d_animation_steps[d_current_step + 1], d_canvas, d_label) IN
         /\ d_canvas' = r.canvas
         /\ d_label' = r.label
         /\ d_current_step' = IF pend # <<>> THEN d_current_step ELSE d_current_step + 1
         /\ d_timers' = Schedule(pend, [job |-> TRUE, pre |-> FALSE])
         /\ d_job' = TRUE
         /\ UNCHANGED <<d_run_enabled, d_pause_enabled, d_animation_steps,
                        d_processes, d_resources>>

\* animate_step, entered with `pend` the pending timers.
animate_step(pend) ==
    IF d_is_paused' \/ d_current_step >= Len(d_animation_steps)
    THEN /\ d_timers' = pend
         /\ IF ~d_is_paused'
            THEN d_run_enabled' = TRUE /\ d_pause_enabled' = FALSE
            ELSE UNCHANGED <<d_run_enabled, d_pause_enabled>>
         /\ UNCHANGED <<d_canvas, d_label, d_job>>
         /\ UNCHANGED <<d_current_step, d_animation_steps, d_processes, d_resources>>
    ELSE LET r == StepEffect(d_animation_steps[d_current_step + 1], d_canvas, d_label) IN
         /\ d_canvas' = r.canvas
         /\ d_label' = r.label
         /\ d_current_step' = d_current_step + 1
         /\ d_timers' = Schedule(pend, [job |-> TRUE, pre |-> FALSE])
         /\ d_job' = TRUE
         /\ UNCHANGED <<d_run_enabled, d_pause_enabled, d_animation_steps,
                        d_processes, d_resources>>

DeadlockInit ==
    /\ d_processes = <<>>
    /\ d_resources = <<>>
    /\ d_animation_steps = <<>>
    /\ d_current_step = 0
    /\ d_is_paused = FALSE
    /\ d_job = FALSE
    /\ d_timers = <<>>
    /\ d_canvas = <<>>
    /\ d_label = [kind |-> "Idle", text |-> 0]
    /\ d_run_enabled = TRUE
    /\ d_pause_enabled = FALSE

\* run_simulation that does not re-enable the Run button when fewer than
\* two processes were sampled.
run_simulation_RunStaysDisabled(n, names, f1, f2) ==
    LET pend == MarkPre(IF d_job THEN Cancel(d_timers) ELSE d_timers) IN
    IF n < 2
    THEN /\ d_is_paused' = FALSE
         /\ d_current_step' = 0
         /\ d_canvas' = <<>>
         /\ d_label' = [kind |-> "NotEnough", text |-> 0]
         /\ d_run_enabled' = FALSE
         /\ d_pause_enabled' = FALSE
         /\ d_timers' = pend
         /\ UNCHANGED <<d_processes, d_resources, d_animation_steps, d_job>>
    ELSE LET p1 == truncate_name(names[1], 12)
             p2 == truncate_name(names[2], 12)
             r1 == truncate_name(OrElse(f1, Resource_A), 12)
             r2 == truncate_name(OrElse(f2, Resource_B), 12)
             steps == AnimationSteps(p1, p2, r1, r2)
         IN  /\ d_is_paused' = FALSE
             /\ d_processes' = Dict2(p1, <<200, 150>>, p2, <<500, 150>>)
             /\ d_resources' = Dict2(r1, <<200, 350>>, r2, <<500, 350>>)
             /\ d_animation_steps' = steps
             /\ d_current_step' = 1
             /\ d_canvas' = StepEffect(steps[1], <<>>, d_label).canvas
             /\ d_label' = StepEffect(steps[1], <<>>, d_label).label
             /\ d_timers' = Schedule(pend, [job |-> TRUE, pre |-> FALSE])
             /\ d_job' = TRUE
             /\ d_run_enabled' = FALSE
             /\ d_pause_enabled' = TRUE

\* run_simulation, with the n processes sampled (their names) and what the
\* open-file lookups of the first two returned.
run_simulation(n, names, f1, f2) ==
    LET pend == MarkPre(IF d_job THEN Cancel(d_timers) ELSE d_timers) IN
    IF n < 2
    THEN /\ d_is_paused' = FALSE
         /\ d_current_step' = 0
         /\ d_canvas' = <<>>
         /\ d_label' = [kind |-> "NotEnough", text |-> 0]
         /\ d_run_enabled' = TRUE
         /\ d_pause_enabled' = FALSE
         /\ d_timers' = pend
         /\ UNCHANGED <<d_processes, d_resources, d_animation_steps, d_job>>
    ELSE LET p1 == truncate_name(names[1], 12)
             p2 == truncate_name(names[2], 12)
             r1 == truncate_name(OrElse(f1, Resource_A), 12)
             r2 == truncate_name(OrElse(f2, Resource_B), 12)
             steps == AnimationSteps(p1, p2, r1, r2)
         IN  /\ d_is_paused' = FALSE
             /\ d_processes' = Dict2(p1, <<200, 150>>, p2, <<500, 150>>)
             /\ d_resources' = Dict2(r1, <<200, 350>>, r2, <<500, 350>>)
             /\ d_animation_steps' = steps
             /\ d_current_step' = 1
             /\ d_canvas' = StepEffect(steps[1], <<>>, d_label).canvas
             /\ d_label' = StepEffect(steps[1], <<>>, d_label).label
             /\ d_timers' = Schedule(pend, [job |-> TRUE, pre |-> FALSE])
             /\ d_job' = TRUE
             /\ d_run_enabled' = FALSE
             /\ d_pause_enabled' = TRUE

\* Run Deadlock Simulation.
DeadlockRun ==
    /\ UNCHANGED <<bvars, svars, kvars>>
    /\ d_run_enabled
    /\ Len(d_timers) < MaxPendingDeadlock
    /\ \E n \in 0..2 : \E names \in [1..n -> ProcNames] : \E f1, f2 \in LookupResults :
        run_simulation(n, names, f1, f2)

\* toggle_pause, pressed while running: Pause.
DeadlockPause ==
    /\ UNCHANGED <<bvars, svars, kvars>>
    /\ d_pause_enabled
    /\ ~d_is_paused
    /\ d_is_paused' = TRUE
    /\ UNCHANGED <<d_processes, d_resources, d_animation_steps, d_current_step, d_job,
                   d_timers, d_canvas, d_label, d_run_enabled, d_pause_enabled>>

\* toggle_pause, pressed while paused: Resume re-triggers animate_step.
DeadlockResume ==
    /\ UNCHANGED <<bvars, svars, kvars>>
    /\ d_pause_enabled
    /\ d_is_paused
    /\ Len(d_timers) < MaxPendingDeadlock
    /\ d_is_paused' = FALSE
    /\ animate_step(d_timers)

\* The head timer fires: animate_step.
DeadlockFire ==
    /\ UNCHANGED <<bvars, svars, kvars>>
    /\ d_timers # <<>>
    /\ UNCHANGED d_is_paused
    /\ animate_step(Tail(d_timers))

\* ==================================================================
\* DashboardView
\* ==================================================================
\* def on_destroy(self): the parameters it declares besides self.
OnDestroyParams == 0

\* bind("<Destroy>", self.on_destroy): Tk calls a bound handler with the
\* event as its one argument.
BoundHandlerArgs == 1

\* The call of on_destroy with nargs arguments, update_running being
\* `running`.  A call with the wrong number of arguments raises TypeError
\* before the body runs; Tk reports the exception of a callback and goes
\* on, so update_running stays as it is.
on_destroy(nargs, running) == IF nargs = OnDestroyParams THEN FALSE ELSE running

\* __init__: the worker thread is started and process_queue is called;
\* that first call is the pending callback.
DashInit ==
    /\ dash_update_running = TRUE
    /\ dash_data_queue = <<>>
    /\ dash_worker = "while"
    /\ dash_produced = 0
    /\ dash_timer = TRUE
    /\ dash_shown = 0
    /\ dash_destroyed = FALSE
    /\ dash_put_after = 0

\* update_processes_worker: the test of the while loop.
WorkerTest ==
    /\ UNCHANGED <<bvars, svars, dvars>>
    /\ dash_worker = "while"
    /\ dash_worker' = IF dash_update_running THEN "body" ELSE "exit"
    /\ UNCHANGED <<dash_update_running, dash_data_queue, dash_produced, dash_timer,
                   dash_shown, dash_destroyed, dash_put_after>>

\* update_processes_worker: get_process_data and data_queue.put.
WorkerPut ==
    /\ UNCHANGED <<bvars, svars, dvars>>
    /\ dash_worker = "body"
    /\ dash_produced < MaxSnapshots
    /\ dash_produced' = dash_produced + 1
    /\ dash_data_queue' = Append(dash_data_queue, dash_produced + 1)
    /\ dash_put_after' = dash_put_after + (IF dash_destroyed THEN 1 ELSE 0)
    /\ dash_worker' = "sleep"
    /\ UNCHANGED <<dash_update_running, dash_timer, dash_shown, dash_destroyed>>

\* update_processes_worker: time.sleep(2) is over.
WorkerWake ==
    /\ UNCHANGED <<bvars, svars, dvars>>
    /\ dash_worker = "sleep"
    /\ dash_worker' = "while"
    /\ UNCHANGED <<dash_update_running, dash_data_queue, dash_produced, dash_timer,
                   dash_shown, dash_destroyed, dash_put_after>>

\* update_gui(data): nothing is drawn once the widget is gone.
update_gui(data) == IF dash_destroyed THEN dash_shown ELSE data

\* process_queue: takes one snapshot if there is one, shows it, and
\* schedules itself again while update_running.
DashProcessQueue ==
    /\ UNCHANGED <<bvars, svars, dvars>>
    /\ dash_timer
    /\ IF dash_data_queue = <<>>
       THEN UNCHANGED <<dash_data_queue, dash_shown>>
       ELSE /\ dash_data_queue' = Tail(dash_data_queue)
            /\ dash_shown' = update_gui(Head(dash_data_queue))
    /\ dash_timer' = dash_update_running
    /\ UNCHANGED <<dash_update_running, dash_worker, dash_produced, dash_destroyed,
                   dash_put_after>>

\* The widget is destroyed: Tk delivers <Destroy> to the bound handler
\* and deletes the widget's callbacks, the pending process_queue among them.
DashDestroy ==
    /\ UNCHANGED <<bvars, svars, dvars>>
    /\ ~dash_destroyed
    /\ dash_destroyed' = TRUE
    /\ dash_update_running' = on_destroy(BoundHandlerArgs, dash_update_running)
    /\ dash_timer' = FALSE
    /\ UNCHANGED <<dash_data_queue, dash_worker, dash_produced, dash_shown, dash_put_after>>

\* ==================================================================
\* Specifications
\* ==================================================================
\* The views are separate frames with separate timers; each is checked on
\* its own, the other one left as constructed with nothing sampled.
BankersIdle ==
    /\ BankersInit
    /\ b_num = 0
    /\ b_available = 3

SchedIdle ==
    /\ SchedInit
    /\ s_processes = <<>>

Init == BankersInit /\ SchedInit /\ DeadlockInit /\ DashInit

BankersNext == BankersReload \/ BankersRun \/ BankersPause \/ BankersResume \/ BankersFire

SchedNext == SchedReload \/ SchedStart \/ SchedPause \/ SchedResume \/ SchedFire

DeadlockNext == DeadlockRun \/ DeadlockPause \/ DeadlockResume \/ DeadlockFire

DashboardNext == WorkerTest \/ WorkerPut \/ WorkerWake \/ DashProcessQueue \/ DashDestroy

Next == BankersNext \/ SchedNext \/ DeadlockNext \/ DashboardNext

Spec == Init /\ [][Next]_vars

\* BankersView under every button and timer.
InitBankers == BankersInit /\ SchedIdle /\ DeadlockInit /\ DashInit

SpecBankers == InitBankers /\ [][BankersNext]_vars

\* BankersView under Run, Pause, Resume and timer firings.
BankersPauseNext == BankersRun \/ BankersPause \/ BankersResume \/ BankersFire

SpecBankersPause == InitBankers /\ [][BankersPauseNext]_vars

\* BankersView, uninterrupted runs: Run and timer firings only.
BankersRunNext == BankersRun \/ BankersFire

SpecBankersRun == InitBankers /\ [][BankersRunNext]_vars

\* A pending Tk timer fires once its delay has passed.
FairSpecBankersRun == SpecBankersRun /\ WF_vars(BankersFire)

\* iterator / execute_process on given matrices (MB), in any order of
\* allocation: setup_simulation's sample, sorted by resident size, never
\* puts a smaller allocation before a larger one.
GivenAvailable == {3, 10}
GivenAllocation == {2, 3}
GivenMaxClaim == {5, 6}

BankersGivenInit ==
    /\ \E n \in 0..MaxProcs :
       \E alloc \in [0..(n - 1) -> GivenAllocation] :
       \E mx \in [0..(n - 1) -> GivenMaxClaim] :
       \E avail \in GivenAvailable :
         /\ b_num = n
         /\ b_available = avail
         /\ b_allocation = alloc
         /\ b_max_claim = mx
         /\ b_need = [i \in 0..(n - 1) |-> mx[i] - alloc[i]]
    /\ b_is_paused = FALSE
    /\ b_job = FALSE
    /\ b_timers = <<>>
    /\ b_heap = [o \in Slots |-> NullTriple]
    /\ b_self = 0
    /\ b_label = "Ready"
    /\ b_shown = [seq |-> <<>>, row |-> -1, color |-> "none"]
    /\ b_run_enabled = TRUE
    /\ b_pause_enabled = FALSE
    /\ b_reported = NullTriple

InitBankersGiven == BankersGivenInit /\ SchedIdle /\ DeadlockInit /\ DashInit

SpecBankersGiven == InitBankersGiven /\ [][BankersRunNext]_vars

\* SchedulingView under every button and timer.
InitSched == SchedInit /\ BankersIdle /\ DeadlockInit /\ DashInit

SpecSched == InitSched /\ [][SchedNext]_vars

\* SchedulingView under Start, Pause, Resume and timer firings.
SchedPauseNext == SchedStart \/ SchedPause \/ SchedResume \/ SchedFire

SpecSchedPause == InitSched /\ [][SchedPauseNext]_vars

\* SchedulingView, uninterrupted runs: Start and timer firings only.
SchedRunNext == SchedStart \/ SchedFire

SpecSchedRun == InitSched /\ [][SchedRunNext]_vars

\* Tk's mainloop runs every callback whose delay has elapsed.
FairSpecSchedPause == SpecSchedPause /\ WF_vars(SchedFire)

\* tick on any ready queue, also one setup_simulation's descending sort
\* never builds: the processes are given in any order of CPU usage.
SchedAnyOrderInit ==
    /\ \E n \in 0..MaxProcs : \E c \in [0..(n - 1) -> CpuPercents] : SchedConstructed(c)
    /\ s_is_paused = FALSE
    /\ s_job = FALSE
    /\ s_timers = <<>>
    /\ s_run_enabled = TRUE
    /\ s_pause_enabled = FALSE
    /\ s_starts = 0

InitTick == SchedAnyOrderInit /\ BankersIdle /\ DeadlockInit /\ DashInit

SpecTick == InitTick /\ [][SchedRunNext]_vars

\* DeadlockView under every button and timer.
InitDeadlock == DeadlockInit /\ BankersIdle /\ SchedIdle /\ DashInit

SpecDeadlock == InitDeadlock /\ [][DeadlockNext]_vars

\* DeadlockView, uninterrupted runs: Run and timer firings only.
DeadlockRunNext == DeadlockRun \/ DeadlockFire

SpecDeadlockRun == InitDeadlock /\ [][DeadlockRunNext]_vars

FairSpecDeadlockRun == SpecDeadlockRun /\ WF_vars(DeadlockFire)

\* DashboardView: the worker thread, the queue poll and the destroy event.
InitDashboard == DashInit /\ BankersIdle /\ SchedIdle /\ DeadlockInit

SpecDashboard == InitDashboard /\ [][DashboardNext]_vars

\* The three views, one in use at a time: a view's buttons and timers act
\* while the other two frames are as constructed, with nothing sampled.
BankersUnused ==
    /\ b_num = 0
    /\ b_available = 3
    /\ b_self = 0
    /\ b_timers = <<>>
    /\ b_label = "Ready"
    /\ ~b_is_paused
    /\ ~b_job

SchedUnused ==
    /\ s_processes = <<>>
    /\ s_timer = 0
    /\ s_starts = 0
    /\ s_timers = <<>>
    /\ ~s_is_paused
    /\ ~s_job

DeadlockUnused == DeadlockInit

BankersRunAlone == SchedUnused /\ DeadlockUnused /\ BankersRun
BankersPauseAlone == SchedUnused /\ DeadlockUnused /\ BankersPause
BankersResumeAlone == SchedUnused /\ DeadlockUnused /\ BankersResume
BankersFireAlone == SchedUnused /\ DeadlockUnused /\ BankersFire
SchedStartAlone == BankersUnused /\ DeadlockUnused /\ SchedStart
SchedPauseAlone == BankersUnused /\ DeadlockUnused /\ SchedPause
SchedResumeAlone == BankersUnused /\ DeadlockUnused /\ SchedResume
SchedFireAlone == BankersUnused /\ DeadlockUnused /\ SchedFire
DeadlockRunAlone == BankersUnused /\ SchedUnused /\ DeadlockRun
DeadlockPauseAlone == BankersUnused /\ SchedUnused /\ DeadlockPause
DeadlockResumeAlone == BankersUnused /\ SchedUnused /\ DeadlockResume
DeadlockFireAlone == BankersUnused /\ SchedUnused /\ DeadlockFire

InitOneView == InitBankers \/ InitSched \/ InitDeadlock

OneViewNext ==
    \/ BankersRunAlone \/ BankersPauseAlone \/ BankersResumeAlone \/ BankersFireAlone
    \/ SchedStartAlone \/ SchedPauseAlone \/ SchedResumeAlone \/ SchedFireAlone
    \/ DeadlockRunAlone \/ DeadlockPauseAlone \/ DeadlockResumeAlone \/ DeadlockFireAlone

SpecOneView == InitOneView /\ [][OneViewNext]_vars

\* ==================================================================
\* Properties
\* ==================================================================
Verdicts == {"SAFE", "UNSAFE"}

\* The triple run_algorithm starts from.
FreshTriple ==
    [work |-> b_available, finish |-> [i \in 0..(b_num - 1) |-> FALSE], seq |-> <<>>]

\* The run of iterator / execute_process from triple t with no pause:
\* its verdict and the safe sequence it ends with.
RECURSIVE UnpausedRun(_)
UnpausedRun(t) ==
    IF Len(t.seq) = b_num THEN [verdict |-> "SAFE", seq |-> t.seq]
    ELSE IF Scan(t).kind = "found" THEN UnpausedRun(Commit(t, Scan(t).i))
    ELSE [verdict |-> "UNSAFE", seq |-> t.seq]

\* C1: Banker's pause/resume.  No process is committed twice, and a run
\* that was paused and resumed ends with the verdict and the safe sequence
\* of the unpaused run.
C1_PauseResumeSameRun ==
    /\ \A o \in Slots : NoDup(b_heap[o].seq)
    /\ b_label \in Verdicts =>
         /\ b_label = UnpausedRun(FreshTriple).verdict
         /\ b_reported.seq = UnpausedRun(FreshTriple).seq

IsPermutation(seq, n) ==
    /\ Len(seq) = n
    /\ \A i \in 0..(n - 1) : Count(seq, i) = 1

\* C2: whenever SAFE is reported, every process is finished and the
\* reported safe sequence holds every process index exactly once.
C2_SafeMeansAllFinished ==
    b_label = "SAFE" =>
        /\ DOMAIN b_reported.finish = 0..(b_num - 1)
        /\ AllFinished(b_reported)
        /\ IsPermutation(b_reported.seq, b_num)

\* seq is an ordering of all processes in which each one's need is at most
\* available plus the allocations of its predecessors.
IsSafeOrder(seq) ==
    /\ IsPermutation(seq, b_num)
    /\ \A k \in 1..Len(seq) :
         b_need[seq[k]] <= b_available + SumSeq([j \in 1..(k - 1) |-> b_allocation[seq[j]]])

SafeOrderExists == \E seq \in [1..b_num -> 0..(b_num - 1)] : IsSafeOrder(seq)

\* C3: an uninterrupted run reports SAFE exactly when a safe ordering
\* exists, the safe sequence it reports is one, and otherwise it reports
\* UNSAFE.
C3_SafeIffSafeOrderExists ==
    b_label \in Verdicts =>
        /\ (b_label = "SAFE") <=> SafeOrderExists
        /\ (b_label = "SAFE") => IsSafeOrder(b_reported.seq)

\* A SAFE verdict whose sequence is not the index order, reached after
\* process 0 had to wait for process 1.
C3_Witness ==
    /\ b_label = "SAFE"
    /\ b_reported.seq = <<1, 0>>
    /\ b_need[0] > b_available

\* C4: a started, uninterrupted run halts: it commits at most
\* num_processes times, it reports SAFE or UNSAFE, also with no process
\* sampled, and no callback is pending once it has reported.
C4_RunHalts ==
    /\ [](b_self # 0 => Len(b_heap[b_self].seq) <= b_num)
    /\ []((b_label \in Verdicts /\ b_run_enabled) => b_timers = <<>>)
    /\ [][BankersRun => (~b_run_enabled' \/ (b_label' \in Verdicts /\ b_timers' = <<>>))]_vars
    /\ (~b_run_enabled) ~> (b_run_enabled /\ b_label \in Verdicts /\ b_timers = <<>>)

\* A run that committed one process and then reported UNSAFE.
C4_Witness ==
    /\ b_label = "UNSAFE"
    /\ Len(b_reported.seq) = 1
    /\ b_num = 2
    /\ b_run_enabled
    /\ b_timers = <<>>

\* C5: in each view at most one scheduled callback is pending.
C5_AtMostOnePending ==
    /\ Len(b_timers) <= 1
    /\ Len(d_timers) <= 1
    /\ Len(s_timers) <= 1

\* C6: no callback scheduled before the last reset is still pending.
C6_ResetCancelsCallbacks ==
    /\ \A k \in 1..Len(b_timers) : ~b_timers[k].pre
    /\ \A k \in 1..Len(s_timers) : ~s_timers[k].pre
    /\ \A k \in 1..Len(d_timers) : ~d_timers[k].pre

Halted == ~MoreWork(SchedSim)

\* The summed durations of the Gantt segments of process i.
GanttTotal(gantt, i) ==
    SumSeq([k \in 1..Len(gantt) |-> IF gantt[k].id = i THEN gantt[k].duration ELSE 0])

\* C7: Round-Robin, in every completed run the Gantt durations of each
\* process sum to its burst.
C7_GanttSumsToBurst ==
    Halted => \A i \in DOMAIN s_processes : GanttTotal(s_gantt, i) = s_processes[i].burst

\* A completed run of two processes in which one ran in three segments,
\* halted while the callback of a second chain (left by a Resume or a
\* Start) is still pending.
C7_Witness ==
    /\ Halted
    /\ s_timers # <<>>
    /\ Cardinality(DOMAIN s_processes) = 2
    /\ \E i \in DOMAIN s_processes :
         Cardinality({k \in 1..Len(s_gantt) : s_gantt[k].id = i}) = 3

\* The state in which an unpaused run of tick from st halts.
RECURSIVE RunToHalt(_)
RunToHalt(st) == IF MoreWork(tick(st)) THEN RunToHalt(tick(st)) ELSE tick(st)

\* The simulation as setup_simulation built it for the current processes.
FreshSimulation ==
    Simulation([i \in DOMAIN s_processes |->
                   [s_processes[i] EXCEPT !.remaining = s_processes[i].burst]])

\* A run started once has come to rest.
FirstRunAtRest ==
    /\ s_starts = 1
    /\ Halted
    /\ s_timers = <<>>
    /\ ~s_is_paused

\* C8: Round-Robin pause/resume.  A run that was paused and resumed ends
\* with the timer and the Gantt of the unpaused run.
C8_PauseResumeSameRun ==
    FirstRunAtRest =>
        /\ s_timer = RunToHalt(FreshSimulation).timer
        /\ s_gantt = RunToHalt(FreshSimulation).gantt

\* C9: the timer moves by one tick at a time, and once the halt condition
\* holds after a tick it stays where it is until setup_simulation zeroes it.
C9_TimerStopsAtHalt ==
    /\ [][s_timer' \in {s_timer, s_timer + 1, 0}]_vars
    /\ [][(Halted /\ s_timer > 0) => s_timer' \in {s_timer, 0}]_vars

Satisfiable(t, i) ==
    /\ i \in DOMAIN t.finish
    /\ i \in DOMAIN b_need
    /\ ~t.finish[i]
    /\ b_need[i] <= t.work

\* The scan has just highlighted a process: the row is drawn orange and the
\* execute_process callback for it is the last one scheduled.
Highlighted ==
    /\ b_shown.color = "orange"
    /\ b_timers # <<>>
    /\ b_timers[Len(b_timers)].fn = "execute_process"
    /\ b_timers[Len(b_timers)].job
    /\ b_timers[Len(b_timers)].idx = b_shown.row

HighlightedTriple == b_heap[b_timers[Len(b_timers)].obj]

\* C11: a highlighted process i is unfinished with need[i] <= work, and no
\* unfinished process of a lower index has need <= work.
C11_LowestIndexSelected ==
    Highlighted =>
        /\ Satisfiable(HighlightedTriple, b_shown.row)
        /\ \A j \in 0..(b_shown.row - 1) : ~Satisfiable(HighlightedTriple, j)

\* Process 0 is highlighted while process 1 could run as well.
C11_Witness ==
    /\ Highlighted
    /\ b_shown.row = 0
    /\ Satisfiable(HighlightedTriple, 1)

\* Process 1 is highlighted because process 0, unfinished, has to wait.
C11_WitnessSkip ==
    /\ Highlighted
    /\ b_shown.row = 1
    /\ ~HighlightedTriple.finish[0]

\* available=[10], allocation=[[2],[3]], max_claim=[[6],[5]], need=[[4],[2]].
IsBankersExample ==
    /\ b_num = 2
    /\ b_available = 10
    /\ b_allocation = [i \in 0..1 |-> IF i = 0 THEN 2 ELSE 3]
    /\ b_max_claim = [i \in 0..1 |-> IF i = 0 THEN 6 ELSE 5]
    /\ b_need = [i \in 0..1 |-> IF i = 0 THEN 4 ELSE 2]

\* C12: on the example an uninterrupted run highlights process 0 first and
\* process 1 second, and ends SAFE with safe_sequence [0, 1].
C12_Example ==
    IsBankersExample =>
        /\ Highlighted => b_shown.row = Len(HighlightedTriple.seq)
        /\ b_label \in Verdicts =>
             /\ b_label = "SAFE"
             /\ b_reported.seq = <<0, 1>>

\* The example's run has reported.
C12_Witness ==
    /\ IsBankersExample
    /\ b_label = "SAFE"
    /\ b_reported.seq = <<0, 1>>
    /\ b_reported.work = 15

\* The canvas and the label after the first k steps of the script, run
\* without a pause on a cleared canvas.
RECURSIVE ScriptPrefix(_)
ScriptPrefix(k) ==
    IF k = 0 THEN [canvas |-> <<>>, label |-> d_label]
    ELSE StepEffect(d_animation_steps[k], ScriptPrefix(k - 1).canvas,
                    ScriptPrefix(k - 1).label)

\* A step of the view that executes the script step under the cursor, and
\* moves the cursor past it.
ExecutesCursorStep ==
    /\ d_current_step < Len(d_animation_steps)
    /\ d_current_step' = d_current_step + 1
    /\ d_animation_steps' = d_animation_steps
    /\ d_canvas' = StepEffect(d_animation_steps[d_current_step + 1], d_canvas, d_label).canvas
    /\ d_label' = StepEffect(d_animation_steps[d_current_step + 1], d_canvas, d_label).label

\* run_simulation clears the canvas and puts the cursor at the start of the
\* script (past its first step when it went on to animate_step).
RestartsScript ==
    /\ d_canvas' = <<>>
    /\ d_current_step' \in {0, 1}
    /\ ~d_is_paused'

\* C13: whatever is paused and resumed, the script steps are executed one
\* at a time, each exactly once and in script order, and the canvas and
\* the label after k steps are those of the unpaused run.
C13_StepsOnceInOrder ==
    /\ [][\/ UNCHANGED <<d_canvas, d_label, d_current_step>>
          \/ RestartsScript
          \/ ExecutesCursorStep]_vars
    /\ [](d_current_step >= 1 =>
            /\ d_current_step <= Len(d_animation_steps)
            /\ d_canvas = ScriptPrefix(d_current_step).canvas
            /\ d_label = ScriptPrefix(d_current_step).label)

\* The script has been played to its end by two chains of callbacks, the
\* second one started by a Resume.
C13_Witness ==
    /\ d_current_step = Len(d_animation_steps)
    /\ d_current_step > 0
    /\ d_label.kind = "DEADLOCK"
    /\ Len(d_timers) >= 2
    /\ \A k \in 1..Len(d_timers) : ~d_timers[k].pre

\* The graph the script has drawn so far.  Its nodes are the keys of
\* self.processes and self.resources that were drawn; an assignment edge
\* runs from the resource to the process, a request edge from the process
\* to the resource.
DrawnSteps(type) ==
    {d_animation_steps[k] : k \in {j \in 1..d_current_step :
                                      d_animation_steps[j].type = type}}

ProcessNodes == {st.args[1] : st \in DrawnSteps("DRAW_PROCESS")}

ResourceNodes == {st.args[1] : st \in DrawnSteps("DRAW_RESOURCE")}

GraphEdges ==
    {<<st.args[1], st.args[2]>> : st \in DrawnSteps("DRAW_ASSIGN_EDGE")}
        \cup {<<st.args[1], st.args[2]>> : st \in DrawnSteps("DRAW_REQUEST_EDGE")}

\* c is a directed cycle of the drawn graph.
IsGraphCycle(c) ==
    /\ Len(c) >= 2
    /\ c[1] = c[Len(c)]
    /\ \A k \in 1..(Len(c) - 1) : <<c[k], c[k + 1]>> \in GraphEdges

\* The display names in the order the script introduces them.
P1 == d_animation_steps[2].args[1]
R1 == d_animation_steps[4].args[1]
P2 == d_animation_steps[8].args[1]
R2 == d_animation_steps[10].args[1]

CycleReported == d_label.kind = "DEADLOCK" /\ d_current_step = Len(d_animation_steps)

\* C14: once the cycle-detection step has run, the graph has two process
\* and two resource nodes on one cycle, and the cycle reported is
\* P1 -> R1 -> P2 -> R2 -> P1.
C14_CycleThroughAllNodes ==
    CycleReported =>
        /\ Cardinality(ProcessNodes) = 2
        /\ Cardinality(ResourceNodes) = 2
        /\ \E c \in [1..5 -> ProcessNodes \cup ResourceNodes] :
             /\ IsGraphCycle(c)
             /\ {c[k] : k \in 1..5} = ProcessNodes \cup ResourceNodes
        /\ d_label.text = <<P1, R1, P2, R2, P1>>

\* What the code reports: the cycle along the two requests,
\* P1 -> R2 -> P2 -> R1 -> P1, always a directed cycle of the drawn edges.
ReportsRequestCycle ==
    CycleReported =>
        /\ d_label.text = <<P1, R2, P2, R1, P1>>
        /\ IsGraphCycle(d_label.text)

\* Two process nodes and two resource nodes are on the canvas.
FourNodesDrawn ==
    CycleReported =>
        /\ Cardinality(ProcessNodes) = 2
        /\ Cardinality(ResourceNodes) = 2
        /\ Cardinality(DOMAIN d_processes) = 2
        /\ Cardinality(DOMAIN d_resources) = 2

\* A Banker's callback fired and left everything but the timer queue alone:
\* the list triples still referred to, the attributes and the widgets.
BankersCallbackNoOp ==
    /\ b_timers' = Tail(b_timers)
    /\ \A o \in Live(b_self, Tail(b_timers)) : b_heap'[o] = b_heap[o]
    /\ UNCHANGED <<b_self, b_label, b_shown, b_run_enabled, b_pause_enabled,
                   b_is_paused, b_reported>>

SchedCallbackNoOp ==
    /\ s_timers' = Tail(s_timers)
    /\ UNCHANGED <<s_processes, s_timer, s_ready_queue, s_current, s_time_slice,
                   s_gantt, s_is_paused, s_run_enabled, s_pause_enabled>>

DeadlockCallbackNoOp ==
    /\ d_timers' = Tail(d_timers)
    /\ UNCHANGED <<d_current_step, d_canvas, d_label, d_animation_steps, d_processes,
                   d_resources, d_is_paused, d_run_enabled, d_pause_enabled>>

\* C15: a callback that fires while the view is paused changes nothing and
\* schedules nothing.
C15_PausedCallbackNoOp ==
    [][/\ (BankersFire /\ b_is_paused) => BankersCallbackNoOp
       /\ (SchedFire /\ s_is_paused) => SchedCallbackNoOp
       /\ (DeadlockFire /\ d_is_paused) => DeadlockCallbackNoOp]_vars

\* The execute_process callback of a highlighted process has fired during
\* the pause: the row is still orange and no callback is left.
C15_Witness ==
    /\ b_is_paused
    /\ b_timers = <<>>
    /\ b_shown.color = "orange"
    /\ b_heap[b_self].seq = <<>>

\* The tick scheduled by Start has fired during the pause.
C15_WitnessSched ==
    /\ s_is_paused
    /\ s_timers = <<>>
    /\ s_timer = 1
    /\ s_current # -1

\* The animate_step scheduled by Run has fired during the pause.
C15_WitnessDeadlock ==
    /\ d_is_paused
    /\ d_timers = <<>>
    /\ d_current_step = 1

\* A step that changes the content of a list triple that is referred to
\* before and after it.
TripleChanges ==
    \E o \in Live(b_self, b_timers) \cap Live(b_self', b_timers') :
        b_heap'[o] # b_heap[o]

\* The step is an execute_process callback that fires and commits.
CommitStep ==
    /\ BankersFire
    /\ Head(b_timers).fn = "execute_process"
    /\ ~b_is_paused
    /\ Head(b_timers).idx \in DOMAIN b_allocation

\* The process the firing callback commits is as the highlight that
\* scheduled the callback found it: unfinished, not in the safe sequence,
\* with need <= work.
AsHighlighted ==
    LET e == Head(b_timers)
        t == b_heap[e.obj]
    IN  /\ Satisfiable(t, e.idx)
        /\ Count(t.seq, e.idx) = 0

\* C16: work, finish and safe_sequence change only in the separately
\* scheduled execute_process step (the highlight step leaves them alone),
\* and at the commit of i they are as the highlight of i left them.
C16_HighlightThenCommit ==
    [][/\ TripleChanges => (BankersRun \/ CommitStep)
       /\ CommitStep => AsHighlighted]_vars

\* The triples iterator is called on in a step: by run_algorithm, by
\* toggle_pause on Resume, or as a callback that fires while not paused.
IteratorCalls ==
    (IF BankersRun /\ ~b_is_paused THEN {FreshTriple} ELSE {})
        \cup (IF BankersResume THEN {b_heap[b_self]} ELSE {})
        \cup (IF /\ BankersFire
                 /\ ~b_is_paused
                 /\ Head(b_timers).fn = "iterator"
              THEN {b_heap[Head(b_timers).obj]} ELSE {})

\* iterator gets to the scan of t, and the scan ends without a process that
\* can run while some process is unfinished.
ScanFindsNone(t) ==
    /\ Len(t.seq) # b_num
    /\ \A i \in 0..(b_num - 1) :
         /\ i \in DOMAIN t.finish
         /\ t.finish[i] \/ b_need[i] > t.work
    /\ \E i \in DOMAIN t.finish : ~t.finish[i]

\* The step puts up the UNSAFE verdict (anew, or for another triple).
ReportsUnsafe ==
    /\ b_label' = "UNSAFE"
    /\ b_label # "UNSAFE" \/ b_reported' # b_reported

\* C17: UNSAFE is reported exactly by a scan that finds no unfinished
\* process with need <= work while some process is unfinished; the
\* reporting step schedules no callback and leaves work, finish and
\* safe_sequence as they were when the scan started.
C17_UnsafeExactlyOnFailedScan ==
    [][/\ \A t \in IteratorCalls :
            ScanFindsNone(t) =>
                /\ b_label' = "UNSAFE"
                /\ b_reported' = t
                /\ b_timers' = IF BankersFire THEN Tail(b_timers) ELSE b_timers
                /\ TripleChanges => BankersRun
       /\ ReportsUnsafe => \E t \in IteratorCalls : ScanFindsNone(t) /\ b_reported' = t]_vars

\* UNSAFE after one commit: process 0 ran, process 1 still needs more than
\* work.
C17_Witness ==
    /\ b_label = "UNSAFE"
    /\ b_reported.seq = <<0>>
    /\ ~b_reported.finish[1]
    /\ b_need[1] > b_reported.work
    /\ b_reported.work = b_available + b_allocation[0]

\* C18: need[i] = max_claim[i] - allocation[i] and need[i] >= 0 for every
\* sampled process, also one whose virtual size is below its resident size.
C18_NeedIsClaimMinusAllocation ==
    /\ DOMAIN b_need = 0..(b_num - 1)
    /\ DOMAIN b_max_claim = 0..(b_num - 1)
    /\ DOMAIN b_allocation = 0..(b_num - 1)
    /\ \A i \in 0..(b_num - 1) :
         /\ b_need[i] = b_max_claim[i] - b_allocation[i]
         /\ b_need[i] >= 0

\* A Reload during a paused run sampled a process whose virtual size is
\* below its resident size: its claim was raised to allocation + 20% + 10.
C18_Witness ==
    /\ \E k \in 1..Len(b_timers) : b_timers[k].pre
    /\ \E i \in 0..(b_num - 1) :
         /\ b_allocation[i] = 1
         /\ b_max_claim[i] = 11
         /\ b_need[i] = 10

\* C19: every process has 0 <= remaining <= burst.
C19_RemainingWithinBurst ==
    \A i \in DOMAIN s_processes :
        /\ 0 <= s_processes[i].remaining
        /\ s_processes[i].remaining <= s_processes[i].burst

\* Two chains of ticks are running; one process is done and another is
\* part of the way through its burst.
C19_Witness ==
    /\ Len(s_timers) >= 2
    /\ \E i \in DOMAIN s_processes : s_processes[i].remaining = 0
    /\ \E i \in DOMAIN s_processes :
         /\ 0 < s_processes[i].remaining
         /\ s_processes[i].remaining < s_processes[i].burst

\* The burst times of the processes built from the CPU readings c, in
\* queue order.
Bursts(c) == [i \in DOMAIN c |-> BurstTime(c[i])]

\* The CPU readings, in any order, that give the same bursts in the same
\* queue order as the current processes.
SameBurstInputs ==
    {c \in [DOMAIN s_processes -> CpuPercents] :
        Bursts(c) = [i \in DOMAIN s_processes |-> s_processes[i].burst]}

NotEnoughOutcome ==
    /\ d_label' = [kind |-> "NotEnough", text |-> 0]
    /\ d_current_step' = 0
    /\ d_canvas' = <<>>
    /\ d_animation_steps' = d_animation_steps
    /\ Len(d_timers') <= Len(d_timers)
    /\ \A k \in 1..Len(d_timers') : d_timers'[k].pre
    /\ d_run_enabled'
    /\ ~d_pause_enabled'

\* C21: Run with fewer than two sampled processes shows the "not enough
\* processes" status, executes no step, leaves the cursor at 0, schedules no
\* callback and leaves the Run button enabled.
C21_TooFewProcesses ==
    [][\A n \in 0..1 : \A names \in [1..n -> ProcNames] : \A f1, f2 \in LookupResults :
          (d_run_enabled /\ run_simulation(n, names, f1, f2)) => NotEnoughOutcome]_vars

\* Run found fewer than two processes after an earlier run had played its
\* script to the end.
C21_Witness ==
    /\ d_label.kind = "NotEnough"
    /\ d_animation_steps # <<>>
    /\ d_current_step = 0
    /\ d_timers = <<>>
    /\ d_run_enabled

\* available plus the allocations of the processes finished in t.
WorkOwed(t) ==
    b_available +
        SumSeq([k \in 1..b_num |-> IF t.finish[k - 1] THEN b_allocation[k - 1] ELSE 0])

\* C22: in the lists of the current run, work is available plus the
\* allocations of the finished processes, and a process is finished
\* exactly when it occurs in safe_sequence.
C22_WorkAccounting ==
    b_self # 0 =>
        /\ b_heap[b_self].work = WorkOwed(b_heap[b_self])
        /\ \A i \in 0..(b_num - 1) :
             b_heap[b_self].finish[i] <=> Count(b_heap[b_self].seq, i) >= 1

\* A tick was executed: only an executed tick advances the timer.
TickExecuted == s_timer' = s_timer + 1

\* The process on the CPU reaches the quantum in the coming tick and still
\* has work left.
QuantumExpires ==
    /\ s_current # -1
    /\ s_time_slice + 1 = Quantum
    /\ s_processes[s_current].remaining > 1

SegmentsWithinQuantum ==
    \A k \in 1..Len(s_gantt) : s_gantt[k].duration \in 1..Quantum

ShortSegmentIsLast ==
    \A k \in 1..Len(s_gantt) :
        s_gantt[k].duration < Quantum =>
            \A j \in (k + 1)..Len(s_gantt) : s_gantt[j].id # s_gantt[k].id

\* The expired process joins the queue behind the waiting ones, and the
\* dispatch of the same tick then takes the head of that queue.
RequeuedAtTail ==
    (TickExecuted /\ QuantumExpires) =>
        /\ s_gantt' = Append(s_gantt, [id |-> s_current,
                                       start |-> s_timer - Quantum + 1,
                                       duration |-> Quantum])
        /\ <<s_current'>> \o s_ready_queue' = Append(s_ready_queue, s_current)

\* C23: every Gantt segment has duration 1..Quantum, a segment shorter than
\* the quantum is the last one of its process, and a process that reaches
\* the quantum with work remaining goes to the tail of the ready queue.
C23_QuantumRequeue ==
    /\ [](SegmentsWithinQuantum /\ ShortSegmentIsLast)
    /\ [][RequeuedAtTail]_vars

\* A process used its whole quantum, the process that was waiting ran
\* next, and the first one came back for a final segment shorter than the
\* quantum.
C23_Witness ==
    \E k \in 1..Len(s_gantt) : \E j \in (k + 2)..Len(s_gantt) :
        /\ s_gantt[k].duration = Quantum
        /\ s_gantt[k + 1].id # s_gantt[k].id
        /\ s_gantt[j].id = s_gantt[k].id
        /\ s_gantt[j].duration < Quantum

\* The process on the CPU finishes in the coming tick.
CurrentFinishes ==
    /\ s_current # -1
    /\ s_processes[s_current].remaining = 1

\* The CPU and the ready queue as tick finds them when it reaches the
\* dispatch test.
CpuEmptyAtDispatch == s_current = -1 \/ CurrentFinishes \/ QuantumExpires

QueueAtDispatch ==
    IF QuantumExpires THEN Append(s_ready_queue, s_current) ELSE s_ready_queue

HeadDispatched ==
    IF CpuEmptyAtDispatch /\ QueueAtDispatch # <<>>
    THEN /\ s_current' = Head(QueueAtDispatch)
         /\ s_ready_queue' = Tail(QueueAtDispatch)
    ELSE /\ s_current' = (IF CpuEmptyAtDispatch THEN -1 ELSE s_current)
         /\ s_ready_queue' = QueueAtDispatch

\* C24: in an executed tick that finds the CPU empty and the ready queue
\* non-empty at the dispatch test, exactly the head of the queue moves to
\* the CPU; after every executed tick the CPU is empty only if the ready
\* queue is empty.
C24_HeadDispatched ==
    [][TickExecuted =>
          /\ HeadDispatched
          /\ (s_current' = -1 => s_ready_queue' = <<>>)]_vars

\* A segment was closed and the process that waited at the head of the
\* queue is on the CPU while another process waits.
C24_Witness ==
    /\ s_gantt # <<>>
    /\ s_current # -1
    /\ s_current # s_gantt[Len(s_gantt)].id
    /\ s_ready_queue = <<s_gantt[Len(s_gantt)].id>>

\* The halt condition of the specification: no process has remaining work,
\* the ready queue is empty and the CPU is empty.
HaltCondition ==
    /\ \A i \in DOMAIN s_processes : s_processes[i].remaining = 0
    /\ s_ready_queue = <<>>
    /\ s_current = -1

\* The tick that was executed scheduled a callback: a firing callback
\* replaced itself, a tick called by a button added one.
Rescheduled ==
    \/ SchedFire /\ Len(s_timers') = Len(s_timers)
    \/ (SchedStart \/ SchedResume) /\ Len(s_timers') = Len(s_timers) + 1

\* C25: an executed tick schedules the next one exactly when the halt
\* condition does not hold after it; a started run that is not left paused
\* reaches the halt condition with no callback pending.
C25_HaltsExactlyWhenDone ==
    /\ [][TickExecuted => (Rescheduled <=> ~HaltCondition')]_vars
    /\ ([]<>(~s_is_paused)) => ((~s_run_enabled) ~> (HaltCondition /\ s_timers = <<>>))

\* A run of two processes that was paused and resumed has halted and no
\* callback is pending.
C25_Witness ==
    /\ HaltCondition
    /\ s_timers = <<>>
    /\ s_starts = 1
    /\ s_run_enabled
    /\ Cardinality(DOMAIN s_processes) = 2
    /\ s_timer > SumSeq([k \in 1..2 |-> s_processes[k - 1].burst]) + 1

\* How often process i occurs in the ready queue.
Queued(i) == Count(s_ready_queue, i)

PlacedOnce ==
    \A i \in DOMAIN s_processes :
        IF s_processes[i].remaining > 0
        THEN (IF s_current = i THEN 1 ELSE 0) + Queued(i) = 1
        ELSE s_current # i /\ Queued(i) = 0

\* Process i is in the queue after the step and was not before it.
EntersQueue(i) == Queued(i)' > Queued(i)

\* C26: after setup and after every executed tick a process with
\* remaining > 0 is on the CPU or exactly once in the ready queue, never
\* both, and a process with remaining = 0 is in neither; outside setup a
\* process enters the queue only when its quantum expires.
C26_Placement ==
    /\ []PlacedOnce
    /\ [][\A i \in DOMAIN s_processes :
             (TickExecuted /\ EntersQueue(i)) => (QuantumExpires /\ s_current = i)]_vars

\* One process is back in the queue after its quantum expired, the other
\* is on the CPU.
C26_Witness ==
    /\ Cardinality(DOMAIN s_processes) = 2
    /\ s_current = 1
    /\ s_ready_queue = <<0>>
    /\ s_processes[0].remaining = s_processes[0].burst - Quantum
    /\ s_processes[0].remaining > 0

SegmentEnd(g) == g.start + g.duration

\* C27: the Gantt segments tile the time axis: each segment starts where
\* the previous one ends, and the last one ends no later than the timer.
C27_GanttTiling ==
    /\ \A k \in 2..Len(s_gantt) : s_gantt[k].start = SegmentEnd(s_gantt[k - 1])
    /\ s_gantt # <<>> => SegmentEnd(s_gantt[Len(s_gantt)]) <= s_timer

\* Several segments on the chart, a short one followed by another, and
\* the timer has moved on since the last one was closed.
C27_Witness ==
    /\ Len(s_gantt) >= 4
    /\ \E k \in 1..(Len(s_gantt) - 1) : s_gantt[k].duration = 1
    /\ s_gantt[1].start = 1
    /\ SegmentEnd(s_gantt[Len(s_gantt)]) < s_timer

\* gantt' is gantt with exactly one segment appended.
AppendsOne(g, h) == Len(h) = Len(g) + 1 /\ SubSeq(h, 1, Len(g)) = g

\* setup_simulation ran: it is the only operation that zeroes the timer
\* and puts every process back with its whole burst.
ReloadRan ==
    /\ s_timer' = 0
    /\ s_starts' = 0
    /\ ~s_is_paused'

\* C28: the Gantt history is append-only.  An executed tick leaves it
\* unchanged or appends exactly one segment; any other step leaves it
\* unchanged, except Reload, which empties it.
C28_GanttAppendOnly ==
    [][/\ TickExecuted => (s_gantt' = s_gantt \/ AppendsOne(s_gantt, s_gantt'))
       /\ (~TickExecuted /\ s_gantt' # s_gantt) => (ReloadRan /\ s_gantt' = <<>>)]_vars

\* Reload has emptied a chart and a callback left from before it has put
\* the first segment of the new run on the chart.
C28_Witness ==
    /\ Len(s_gantt) = 1
    /\ s_starts = 0
    /\ s_timer = 3

ScriptLen == 18

\* The canvas items of one kind, by their position in drawing order.
Drawn(kind) == {k \in 1..Len(d_canvas) : d_canvas[k].kind = kind}

\* A node of the given kind was drawn at position pos before item k.
NodeDrawnBefore(kind, pos, k) ==
    \E j \in Drawn(kind) : j < k /\ d_canvas[j].at = pos

EdgesAfterEndpoints ==
    /\ \A k \in Drawn("assign") :
         /\ NodeDrawnBefore("resource", d_canvas[k].at, k)
         /\ NodeDrawnBefore("process", d_canvas[k].to, k)
    /\ \A k \in Drawn("request") :
         /\ NodeDrawnBefore("process", d_canvas[k].at, k)
         /\ NodeDrawnBefore("resource", d_canvas[k].to, k)

DetectCycleLast ==
    /\ d_animation_steps # <<>> =>
         /\ Len(d_animation_steps) = ScriptLen
         /\ \A k \in 1..ScriptLen :
              d_animation_steps[k].type = "DETECT_CYCLE" <=> k = ScriptLen
    /\ d_label.kind = "DEADLOCK" =>
         /\ d_current_step = ScriptLen
         /\ Cardinality(Drawn("assign")) = 2
         /\ Cardinality(Drawn("request")) = 2

\* Run went on to animate_step: the cursor is past the first step, on a
\* cleared canvas.
RunStartsScript ==
    (d_run_enabled /\ ~d_run_enabled') =>
        /\ d_current_step' = 1
        /\ d_canvas' = <<>>
        /\ d_label' = [kind |-> "TEXT", text |-> 1]

\* A callback of an uninterrupted run executes the step under the cursor,
\* or finds the script finished.
FireExecutesNext ==
    DeadlockFire =>
        IF d_current_step < ScriptLen
        THEN ExecutesCursorStep
        ELSE UNCHANGED <<d_canvas, d_label, d_current_step>>

\* C29: in an uninterrupted run the 18 script steps are executed in the
\* listed order, the cursor moving by one per executed step up to 18; an
\* edge is drawn only after both of its endpoint nodes; DETECT_CYCLE is the
\* last step and runs after both assignment and both request edges; a
\* started run plays the script to its end.
C29_ScriptOrder ==
    /\ [](d_current_step \in 0..ScriptLen)
    /\ [](d_current_step >= 1 => d_canvas = ScriptPrefix(d_current_step).canvas)
    /\ [](EdgesAfterEndpoints /\ DetectCycleLast)
    /\ [][RunStartsScript /\ FireExecutesNext]_vars
    /\ (~d_run_enabled) ~>
          (d_run_enabled /\ d_current_step = ScriptLen /\ d_label.kind = "DEADLOCK")

\* The script has been played to its end without a pause and the last
\* callback has found it finished.
C29_Witness ==
    /\ d_current_step = ScriptLen
    /\ d_label.kind = "DEADLOCK"
    /\ d_run_enabled
    /\ d_timers = <<>>
    /\ Len(d_canvas) = 8

\* A script step before the last one draws the edge of the given type
\* from a to b.
EdgeStepBeforeLast(type, a, b) ==
    \E j \in 1..(Len(d_animation_steps) - 1) :
        d_animation_steps[j] = [type |-> type, args |-> <<a, b>>]

\* The canvas holds a line of the given kind between the two positions.
LineDrawn(kind, from, to) ==
    \E k \in Drawn(kind) : d_canvas[k].at = from /\ d_canvas[k].to = to

\* C30: the cycle DETECT_CYCLE reports is the literal sequence
\* P1, R2, P2, R1, P1, and each consecutive pair of it is an edge an
\* earlier script step has drawn: request P1 -> R2, assignment R2 -> P2,
\* request P2 -> R1, assignment R1 -> P1.
C30_CycleByConstruction ==
    CycleReported =>
        /\ d_label.text = <<P1, R2, P2, R1, P1>>
        /\ EdgeStepBeforeLast("DRAW_REQUEST_EDGE", P1, R2)
        /\ EdgeStepBeforeLast("DRAW_ASSIGN_EDGE", R2, P2)
        /\ EdgeStepBeforeLast("DRAW_REQUEST_EDGE", P2, R1)
        /\ EdgeStepBeforeLast("DRAW_ASSIGN_EDGE", R1, P1)
        /\ LineDrawn("request", d_processes[P1], d_resources[R2])
        /\ LineDrawn("assign", d_resources[R2], d_processes[P2])
        /\ LineDrawn("request", d_processes[P2], d_resources[R1])
        /\ LineDrawn("assign", d_resources[R1], d_processes[P1])

\* The cycle has been reported for four different display names, one of
\* them a placeholder for a process without an open file.
C30_Witness ==
    /\ CycleReported
    /\ Cardinality({P1, P2, R1, R2}) = 4
    /\ R2 = Resource_B

\* ------------------------------------------------------------ C31 .. C35
\* run_simulation has built the graph of a run.
GraphBuilt == d_animation_steps # <<>>

\* The positions the entries of a node dict are drawn at.
Positions(dict) == {dict[k] : k \in DOMAIN dict}

\* C31: whatever the names of the two sampled processes and of the files
\* found, the built graph has exactly two process nodes and two resource
\* nodes, each at its own position.
C31_TwoProcessesTwoResources ==
    GraphBuilt =>
        /\ Cardinality(DOMAIN d_processes) = 2
        /\ Cardinality(DOMAIN d_resources) = 2
        /\ Cardinality(Positions(d_processes) \cup Positions(d_resources)) = 4

\* The lookup of outcome o yields nothing: it was refused, the process
\* is gone, or no file of the process is suitable.
YieldsNothing(o) ==
    \/ o.kind # "files"
    \/ \A k \in 1..Len(o.files) : o.files[k].windows \/ o.files[k].system32

\* The resource name the script must carry for a lookup with outcome o.
ResourceName(o, placeholder) ==
    truncate_name(IF YieldsNothing(o) THEN placeholder ELSE get_open_file_for_pid(o), 12)

\* Run built the whole script with the names of both resources and went
\* on to the first step of the animation.
RunProceeds(o1, o2) ==
    /\ Len(d_animation_steps') = ScriptLen
    /\ R1' = ResourceName(o1, Resource_A)
    /\ R2' = ResourceName(o2, Resource_B)
    /\ R1' # <<>> /\ R2' # <<>>
    /\ d_current_step' = 1
    /\ d_timers' # <<>> /\ d_timers'[Len(d_timers')].job
    /\ ~d_run_enabled'
    /\ d_pause_enabled'

\* C32: with two sampled processes, whatever the open-file lookup of
\* either process does (a name found, no suitable file, access denied,
\* process vanished), Run builds the full script with a name for R1 and
\* R2, the placeholder where the lookup yields nothing, and starts the
\* animation.
C32_LookupNeverAborts ==
    [][(d_run_enabled /\ d_job' /\ d_current_step' = 1 /\ ~d_is_paused') =>
          \A o1, o2 \in LookupOutcomes :
              (\E names \in [1..2 -> ProcNames] :
                  run_simulation(2, names, get_open_file_for_pid(o1),
                                 get_open_file_for_pid(o2)))
                  => RunProceeds(o1, o2)]_vars

\* A run was started for a process whose lookup yielded nothing and one
\* whose open file was found.
C32_Witness ==
    /\ GraphBuilt
    /\ d_current_step = 1
    /\ R1 = Resource_A
    /\ R2 = DataDb
    /\ ~d_run_enabled

BankersInputs == <<b_num, b_available, b_allocation, b_max_claim, b_need>>

\* What every call of setup_simulation leaves: the Ready text, a table
\* with no sequence and no highlight, Run enabled, Pause disabled, nothing
\* reported.
SetupRan ==
    /\ b_label' = "Ready"
    /\ b_shown' = [seq |-> <<>>, row |-> -1, color |-> "none"]
    /\ b_reported' = NullTriple
    /\ b_run_enabled' /\ ~b_pause_enabled'
    /\ ~b_is_paused' /\ ~b_job'

\* C33: Run, the highlight and commit steps, Pause and Resume leave
\* available, allocation, max_claim and need (and the number of
\* processes) as they are; a step that changes one of them is Reload.
C33_RunLeavesInputs ==
    [][BankersInputs' # BankersInputs => SetupRan]_vars

\* A run has committed both processes, its work list has grown past
\* available, and the verdict is out.
C33_Witness ==
    /\ b_label = "SAFE"
    /\ b_num = 2
    /\ Len(b_reported.seq) = 2
    /\ b_reported.work = b_available + b_allocation[0] + b_allocation[1]
    /\ b_reported.work > b_available

\* floor(c * 0.5), with 0.5 taken as five tenths.
FloorHalf(c) == (c * 5) \div 10

\* The burst the specification derives from a CPU reading c.
DerivedBurst(c) == IF FloorHalf(c) + 1 >= 2 THEN FloorHalf(c) + 1 ELSE 2

\* C34: for every CPU reading c > 0 the burst is max(2, floor(c * 0.5) + 1),
\* so it is at least 2 and does not decrease when c grows; every process
\* setup_simulation builds has that burst, and its remaining time starts
\* equal to it.
C34_BurstDerivation ==
    /\ \A c \in 1..MaxCpuPercent :
         /\ BurstTime(c) = DerivedBurst(c)
         /\ BurstTime(c) >= 2
         /\ BurstTime(c) <= BurstTime(c + 1)
    /\ \A i \in DOMAIN s_processes :
         /\ s_processes[i].cpu_usage > 0
         /\ s_processes[i].burst = DerivedBurst(s_processes[i].cpu_usage)
         /\ s_processes[i].burst >= 2
         /\ s_timer = 0 => s_processes[i].remaining = s_processes[i].burst
    /\ \A i, j \in DOMAIN s_processes :
         s_processes[i].cpu_usage <= s_processes[j].cpu_usage
             => s_processes[i].burst <= s_processes[j].burst

\* Reload during a run has built two processes, one with the minimum
\* burst and one with a longer one; a callback of the old run is pending.
C34_Witness ==
    /\ s_timer = 0
    /\ s_timers # <<>>
    /\ Cardinality(DOMAIN s_processes) = 2
    /\ s_processes[0].cpu_usage = 8 /\ s_processes[0].burst = 5
    /\ s_processes[1].cpu_usage = 1 /\ s_processes[1].burst = 2
    /\ s_ready_queue = <<0, 1>>

\* C35: once the destroy event has been delivered, update_running is
\* false, the worker puts at most the snapshot of the iteration it was in
\* on the queue, and no process_queue callback is pending or scheduled.
C35_DestroyStopsUpdates ==
    dash_destroyed =>
        /\ ~dash_update_running
        /\ dash_put_after <= 1
        /\ ~dash_timer

====
